---- MODULE Spec2Model ----
(***************************************************************************)
(* Inventory search client: the request cache of InventorySearchApiService *)
(* (search / getPeakAvailability / remember / cacheKey) and the search     *)
(* pipeline of IndexPageComponent (triggers, debounce, switchMap,          *)
(* published loading / items / total / errorMessage).                      *)
(*                                                                         *)
(* Strings that the code inspects character by character (criteria,       *)
(* branch codes, cache keys) are sequences of one-character strings.       *)
(* Date.now() is read as one value for the whole of a synchronous call.    *)
(***************************************************************************)
EXTENDS Integers, Sequences, FiniteSets, TLC

VARIABLES
    now,          \* Date.now(), in ms
    cache,        \* InventorySearchApiService.cache
    peakCache,    \* InventorySearchApiService.peakCache
    handles,      \* the shareReplay'd observables obs$ created so far
    sub,          \* service callers: the handle each one is subscribed to (0: none)
    delivered,    \* service callers: the outcome the last step delivered, and to whom
    lastGet,      \* what the last step's search()/getPeakAvailability() call found
    kq1, kq2,     \* two search queries handed to cacheKey
    kk1, kk2,     \* the keys cacheKey returned for them
    form,         \* IndexPageComponent.form.value
    sortState,    \* sortState$.value
    page,         \* page$.value
    currentPage,  \* currentPage
    loading,      \* loading$.value
    items,        \* items$.value
    total,        \* total$.value
    errorMessage, \* errorMessage
    alive,        \* response$ is still subscribed to its source
    debouncing,   \* debounceTime holds a value
    deadline,     \* when debounceTime is due to emit it
    inner,        \* the observables switchMap is subscribed to
    latest,       \* the observable of the request issued last
    stale,        \* a trigger has arrived since that request was issued
    dropped,      \* that request replaced one that was still outstanding
    burst,        \* user triggers in the current (or last) debounce window
    lastTrigger,  \* when the last of them arrived
    pub,          \* the result the last step published
    issuedQ,      \* the query the last step handed to api.search()
    pageIndex,    \* ResultsTableComponent.pageIndex
    currentSort,  \* ResultsTableComponent.currentSort
    records,      \* MockInventoryRepository._items
    call,         \* the last request InventoryController received
    reply         \* what it answered

svcVars == <<now, cache, peakCache, handles>>
callerVars == <<sub, delivered, lastGet>>
keyVars == <<kq1, kq2, kk1, kk2>>
formVars == <<form, sortState, page, currentPage>>
shownVars == <<loading, items, total, errorMessage>>
pipeVars == <<alive, debouncing, deadline, inner>>
histVars == <<latest, stale, dropped, burst, lastTrigger, pub, issuedQ>>
orchVars == <<formVars, shownVars, pipeVars, histVars>>
tableVars == <<pageIndex, currentSort>>
serverVars == <<records, call, reply>>
vars == <<svcVars, callerVars, keyVars, orchVars, tableVars, serverVars>>

(***************************************************************************)
(* Characters and strings                                                  *)
(***************************************************************************)
\* the characters in use, in ascending UTF-16 code unit order
Ascii ==
    <<" ", ",", "-", "0", "1", "2", "3", "4", "5", "6", "7", "8", "9", ":",
      "A", "B", "C", "D", "E", "F", "G", "H", "I", "J", "K", "L", "M",
      "N", "O", "P", "Q", "R", "S", "T", "U", "V", "W", "X", "Y", "Z",
      "a", "b", "c", "d", "e", "f", "g", "h", "i", "j", "k", "l", "m",
      "n", "o", "p", "q", "r", "s", "t", "u", "v", "w", "x", "y", "z", "|">>

Code(ch) == CHOOSE i \in 1..Len(Ascii) : Ascii[i] = ch

IsUpperCh(ch) == Code(ch) >= Code("A") /\ Code(ch) <= Code("Z")
IsLowerCh(ch) == Code(ch) >= Code("a") /\ Code(ch) <= Code("z")

\* String.prototype.toLowerCase / toUpperCase
toLowerCase(s) ==
    [i \in 1..Len(s) |->
        IF IsUpperCh(s[i]) THEN Ascii[Code(s[i]) - Code("A") + Code("a")] ELSE s[i]]
toUpperCase(s) ==
    [i \in 1..Len(s) |->
        IF IsLowerCh(s[i]) THEN Ascii[Code(s[i]) - Code("a") + Code("A")] ELSE s[i]]

RECURSIVE trimStart(_)
trimStart(s) ==
    IF s # <<>> /\ Head(s) = " " THEN trimStart(Tail(s)) ELSE s
RECURSIVE trimEnd(_)
trimEnd(s) ==
    IF s # <<>> /\ s[Len(s)] = " " THEN trimEnd(SubSeq(s, 1, Len(s) - 1)) ELSE s
\* String.prototype.trim
trim(s) == trimEnd(trimStart(s))

\* a < b in the order Array.prototype.sort() uses without a comparator
RECURSIVE StrLess(_, _)
StrLess(a, b) ==
    IF b = <<>> THEN FALSE
    ELSE IF a = <<>> THEN TRUE
    ELSE IF Head(a) # Head(b) THEN Code(Head(a)) < Code(Head(b))
    ELSE StrLess(Tail(a), Tail(b))

RECURSIVE InsertSorted(_, _)
InsertSorted(x, s) ==
    IF s = <<>> THEN <<x>>
    ELSE IF StrLess(x, Head(s)) THEN <<x>> \o s
    ELSE <<Head(s)>> \o InsertSorted(x, Tail(s))
\* Array.prototype.sort() on strings
RECURSIVE sortStrings(_)
sortStrings(s) ==
    IF s = <<>> THEN <<>>
    ELSE InsertSorted(s[Len(s)], sortStrings(SubSeq(s, 1, Len(s) - 1)))

\* Array.prototype.join
RECURSIVE join(_, _)
join(parts, sep) ==
    IF parts = <<>> THEN <<>>
    ELSE IF Len(parts) = 1 THEN parts[1]
    ELSE parts[1] \o sep \o join(Tail(parts), sep)

\* `${n}` for an integer n
RECURSIVE Digits(_)
Digits(n) ==
    IF n < 10 THEN <<Ascii[Code("0") + n]>>
    ELSE Digits(n \div 10) \o <<Ascii[Code("0") + (n % 10)]>>
NumToStr(n) == IF n < 0 THEN <<"-">> \o Digits(0 - n) ELSE Digits(n)

(***************************************************************************)
(* InventorySearchQuery and cacheKey                                       *)
(***************************************************************************)
PartNumber == <<"P", "a", "r", "t", "N", "u", "m", "b", "e", "r">>
Description == <<"D", "e", "s", "c", "r", "i", "p", "t", "i", "o", "n">>
asc == <<"a", "s", "c">>
desc == <<"d", "e", "s", "c">>
branchField == <<"b", "r", "a", "n", "c", "h">>
SupplierSKU == <<"S", "u", "p", "p", "l", "i", "e", "r", "S", "K", "U">>
\* DateTime.MinValue, dates being day numbers from 1 on
MinDate == 0
\* the page size SearchInventoryAsync falls back to
DefaultSize == 20
\* q.sort undefined
NoSort == [field |-> <<>>, direction |-> <<>>]

\* a cacheKey that joins the branch codes in the order given
cacheKeyUnsorted(q) ==
    join(<<toLowerCase(trim(q.criteria)), q.by,
           join([i \in 1..Len(q.branches) |-> toUpperCase(trim(q.branches[i]))], <<"|">>),
           IF q.onlyAvailable THEN <<"1">> ELSE <<"0">>,
           <<"p">> \o NumToStr(q.page), <<"s">> \o NumToStr(q.size),
           IF q.sort.field # <<>> THEN q.sort.field \o <<":">> \o q.sort.direction
           ELSE <<"n", "o", "s", "o", "r", "t">>>>, <<":", ":">>)

\* a cacheKey that leaves the page index out
cacheKeyWithoutPage(q) ==
    join(<<toLowerCase(trim(q.criteria)), q.by,
           join(sortStrings([i \in 1..Len(q.branches) |->
                                 toUpperCase(trim(q.branches[i]))]), <<"|">>),
           IF q.onlyAvailable THEN <<"1">> ELSE <<"0">>,
           <<"s">> \o NumToStr(q.size),
           IF q.sort.field # <<>> THEN q.sort.field \o <<":">> \o q.sort.direction
           ELSE <<"n", "o", "s", "o", "r", "t">>>>, <<":", ":">>)

cacheKey(q) ==
    LET criteria == toLowerCase(trim(q.criteria))
        by == q.by
        branches ==
            join(sortStrings([i \in 1..Len(q.branches) |->
                                  toUpperCase(trim(q.branches[i]))]), <<"|">>)
        available == IF q.onlyAvailable THEN <<"1">> ELSE <<"0">>
        pg == <<"p">> \o NumToStr(q.page)
        size == <<"s">> \o NumToStr(q.size)
        sort == IF q.sort.field # <<>>
                THEN q.sort.field \o <<":">> \o q.sort.direction
                ELSE <<"n", "o", "s", "o", "r", "t">>
    IN  join(<<criteria, by, branches, available, pg, size, sort>>, <<":", ":">>)

\* the key of getPeakAvailability
peakKey(partNumber) ==
    <<"p", "e", "a", "k", ":">> \o toUpperCase(trim(partNumber))

(***************************************************************************)
(* Bounds and inputs                                                       *)
(***************************************************************************)
MaxHandles == 3
CapHandles == 7
MaxTicks == 3
Callers == {"c1", "c2"}

CACHE_TTL_MS == 60000
CACHE_MAX_ENTRIES == 5
\* the clock is sampled every half TTL
TickStep == CACHE_TTL_MS \div 2

SEA == <<"S", "E", "A">>
PDX == <<"P", "D", "X">>
Q(criteria, branches, index) ==
    [criteria |-> criteria, by |-> PartNumber, branches |-> branches,
     onlyAvailable |-> FALSE, page |-> index, size |-> 20, sort |-> NoSort]

\* queries the two service callers issue: two distinct keys, the first one
\* by two queries that differ in case, whitespace and branch order
SearchInputs ==
    {Q(<<"a">>, <<SEA, PDX>>, 0), Q(<<" ", "A">>, <<<<"p", "d", "x", " ">>, SEA>>, 0),
     Q(<<"a">>, <<SEA, PDX>>, 1)}
\* part numbers the service callers look up: one key, by two spellings
PeakInputs == {<<"p", "n", "1">>, <<" ", "P", "N", "1">>}
\* queries of the capacity scenario: one more distinct key than a cache holds
CapInputs == {Q(<<"a">>, <<SEA, PDX>>, p) : p \in 0..5}
CapPeakInputs == {<<"p", "n", "1">>}
\* part numbers of the two-cache scenario
IndepPeakInputs == {<<"p", "n", "1">>, <<"p", "n", "2">>}

(***************************************************************************)
(* ApiEnvelope values and upstream outcomes                                *)
(***************************************************************************)
OkEnv(h, t) ==
    [isFailed |-> FALSE,
     data |-> <<[total |-> t, items |-> IF t = 0 THEN <<>> ELSE <<h>>]>>,
     message |-> ""]
FailEnv(m) == [isFailed |-> TRUE, data |-> <<>>, message |-> m]
\* an upstream outcome: a response envelope (res = <<env>>) or a transport error
Responded(env) == [err |-> FALSE, res |-> <<env>>]
TransportError == [err |-> TRUE, res |-> <<>>]
IsFailure(o) == o.err \/ o.res[1].isFailed

CacheOutcomes(h) == {Responded(OkEnv(h, 45)), Responded(FailEnv("boom")), TransportError}
CapOutcomes(h) == {Responded(OkEnv(h, 45))}
IndepOutcomes(h) == {Responded(OkEnv(h, 45)), Responded(FailEnv("boom"))}

(***************************************************************************)
(* InventorySearchApiService                                               *)
(***************************************************************************)
\* a sweep that removes nothing
SweepNothing(c, t) == c
\* this.cache.filter(e => e.expiry > now)
Sweep(c, t) == SelectSeq(c, LAMBDA e : e.expiry > t)

\* this.cache.find(e => e.key === key): the matching entries, first one first
Hits(c, key) == SelectSeq(c, LAMBDA e : e.key = key)

\* this.cache.filter(e => e.key !== key)
DropKey(c, key) == SelectSeq(c, LAMBDA e : e.key # key)

RECURSIVE InsertByExpiry(_, _)
InsertByExpiry(e, s) ==
    IF s = <<>> THEN <<e>>
    ELSE IF e.expiry < Head(s).expiry THEN <<e>> \o s
    ELSE <<Head(s)>> \o InsertByExpiry(e, Tail(s))
\* next.sort((a, b) => a.expiry - b.expiry), a stable sort
RECURSIVE SortByExpiry(_)
SortByExpiry(s) ==
    IF s = <<>> THEN <<>>
    ELSE InsertByExpiry(s[Len(s)], SortByExpiry(SubSeq(s, 1, Len(s) - 1)))

\* while (next.length > CACHE_MAX_ENTRIES) next.shift()
RECURSIVE ShiftToCap(_)
ShiftToCap(s) ==
    IF Len(s) > CACHE_MAX_ENTRIES THEN ShiftToCap(Tail(s)) ELSE s

\* a remember that evicts the entry with the latest expiry when at capacity
rememberEvictLatest(c, entry, t) ==
    LET live == SelectSeq(c, LAMBDA e : e.expiry > t)
        next == IF Len(live) >= CACHE_MAX_ENTRIES
                THEN SubSeq(SortByExpiry(live), 1, CACHE_MAX_ENTRIES - 1)
                ELSE live
    IN  ShiftToCap(Append(next, [key |-> entry.key, obs |-> entry.obs,
                                 expiry |-> t + CACHE_TTL_MS]))
\* remember(cache, entry) at time t: the array assigned back to the cache
remember(c, entry, t) ==
    LET expiry == t + CACHE_TTL_MS
        live == SelectSeq(c, LAMBDA e : e.expiry > t)
        next == IF Len(live) >= CACHE_MAX_ENTRIES
                THEN SubSeq(SortByExpiry(live),
                            Len(live) - CACHE_MAX_ENTRIES + 2, Len(live))
                ELSE live
    IN  ShiftToCap(Append(next, [key |-> entry.key, obs |-> entry.obs, expiry |-> expiry]))

\* a fresh http.get(...).pipe(tap(...), shareReplay({bufferSize: 1, refCount: true}))
\* calls: its HTTP calls in flight; buf: the response shareReplay has buffered
NewHandle(name, key) ==
    [cache |-> name, key |-> key, calls |-> 0, buf |-> <<>>]
Completed(hs, h) == hs[h].buf # <<>>
InFlight(hs, h) == hs[h].calls > 0

\* search() / getPeakAvailability() on cache array c: the new array, the
\* observable returned (obs) and whether it was a cache hit
GetOrCreate(c, key) ==
    LET swept == Sweep(c, now)
        hit == Hits(swept, key)
    IN  IF hit # <<>>
        THEN [cache |-> swept, obs |-> hit[1].obs, hit |-> TRUE]
        ELSE [cache |-> remember(swept, [key |-> key, obs |-> Len(handles) + 1], now),
              obs |-> Len(handles) + 1, hit |-> FALSE]

\* a subscribe without sharing: every subscriber starts an HTTP call of its own
SubscribeUnshared(hs, h) ==
    IF ~(hs[h].buf # <<>>) THEN [hs EXCEPT ![h].calls = @ + 1] ELSE hs
\* subscribing to obs$: shareReplay connects to the source (one HTTP call)
\* when it has no connection, otherwise it attaches to the connection or
\* replays the buffered response
Subscribe(hs, h) ==
    IF ~Completed(hs, h) /\ ~InFlight(hs, h)
    THEN [hs EXCEPT ![h].calls = 1]
    ELSE hs

\* unsubscribing from obs$ when nobody else is subscribed: refCount drops to
\* zero and shareReplay aborts the pending HTTP call and resets
Unsubscribe(hs, h, others) ==
    IF others = 0 /\ ~Completed(hs, h)
    THEN [hs EXCEPT ![h].calls = 0]
    ELSE hs

\* the outcome of the HTTP call of obs$ h as seen by obs$: a response is
\* buffered and completes it, an error resets it
Settle(hs, h, o) ==
    IF o.err
    THEN [hs EXCEPT ![h].calls = 0]
    ELSE [hs EXCEPT ![h].calls = 0, ![h].buf = o.res]

\* tap(res => { if (res.isFailed) this.cache = this.cache.filter(e => e.key !== key) })
TapFailed(c, name, h, o) ==
    IF ~o.err /\ o.res[1].isFailed /\ handles[h].cache = name
    THEN DropKey(c, handles[h].key)
    ELSE c

\* An obs$ that no cache entry holds and nobody is subscribed to is
\* unreachable: nothing can subscribe to it again and its state is dropped.
Referenced(h, c, pc, s, in) ==
    \/ \E i \in 1..Len(c) : c[i].obs = h
    \/ \E i \in 1..Len(pc) : pc[i].obs = h
    \/ \E x \in DOMAIN s : s[x] = h
    \/ h \in in
Collect(hs, c, pc, s, in) ==
    [h \in 1..Len(hs) |->
        IF Referenced(h, c, pc, s, in) THEN hs[h]
        ELSE [hs[h] EXCEPT !.calls = 0, !.buf = <<>>]]

(***************************************************************************)
(* InventoryService (server)                                               *)
(***************************************************************************)
\* int.MaxValue and the 32-bit arithmetic of C#
MaxInt == 2147483647
MinInt == (0 - MaxInt) - 1
\* a + b in unchecked int arithmetic
AddWrap(a, b) ==
    IF a >= 0 /\ b >= 0 /\ a > MaxInt - b
    THEN ((((a - MaxInt) - 1) + b) - MaxInt) - 1
    ELSE IF a < 0 /\ b < 0 /\ a < MinInt - b
    THEN ((((a + MaxInt) + 1) + b) + MaxInt) + 1
    ELSE a + b
\* a * b in unchecked int arithmetic, for b >= 0
RECURSIVE MulWrap(_, _)
MulWrap(a, b) ==
    IF b = 0 THEN 0
    ELSE LET h == MulWrap(a, b \div 2)
             d == AddWrap(h, h)
         IN  IF b % 2 = 1 THEN AddWrap(d, a) ELSE d

\* string.IsNullOrWhiteSpace
IsNullOrWhiteSpace(s) == \A i \in 1..Len(s) : s[i] = " "
\* s.Contains(part)
Contains(s, part) ==
    \E i \in 0..(Len(s) - Len(part)) : SubSeq(s, i + 1, i + Len(part)) = part
\* s.Split(sep): the pieces between the separators, empty ones included
RECURSIVE Split(_, _)
Split(s, sep) ==
    IF \A i \in 1..Len(s) : s[i] # sep THEN <<s>>
    ELSE LET k == CHOOSE i \in 1..Len(s) :
                    s[i] = sep /\ \A j \in 1..(i - 1) : s[j] # sep
         IN  <<SubSeq(s, 1, k - 1)>> \o Split(SubSeq(s, k + 1, Len(s)), sep)
\* StringSplitOptions.TrimEntries
TrimEntries(parts) == [i \in 1..Len(parts) |-> trim(parts[i])]
\* StringSplitOptions.RemoveEmptyEntries
RemoveEmptyEntries(parts) == SelectSeq(parts, LAMBDA x : x # <<>>)

\* request.Branches.Split(',', RemoveEmptyEntries | TrimEntries)
\*     .Select(b => b.ToUpperInvariant()).ToHashSet()
branchSet(branches) ==
    LET parts == RemoveEmptyEntries(TrimEntries(Split(branches, ",")))
    IN  {toUpperCase(parts[i]) : i \in 1..Len(parts)}

\* the three Where(...) predicates of SearchInventoryAsync
CriteriaMatch(i, request) ==
    LET criteria == trim(request.Criteria)
        by == trim(request.By)
        critUpper == toUpperCase(criteria)
    IN  IsNullOrWhiteSpace(criteria)
        \/ Contains(toUpperCase(IF by = Description THEN i.Description
                                ELSE IF by = SupplierSKU THEN i.SupplierSku
                                ELSE i.PartNumber), critUpper)
BranchMatch(i, request) ==
    IsNullOrWhiteSpace(request.Branches)
    \/ toUpperCase(i.Branch) \in branchSet(request.Branches)
AvailableMatch(i, request) == ~request.OnlyAvailable \/ i.AvailableQty > 0

\* sortField and sortDir as parsed from request.Sort
sortFieldOf(sort) ==
    IF ~IsNullOrWhiteSpace(sort) /\ Contains(sort, <<":">>)
    THEN toLowerCase(TrimEntries(Split(sort, ":"))[1])
    ELSE <<"p", "a", "r", "t", "n", "u", "m", "b", "e", "r">>
sortDirOf(sort) ==
    IF ~IsNullOrWhiteSpace(sort) /\ Contains(sort, <<":">>)
    THEN toLowerCase(TrimEntries(Split(sort, ":"))[2])
    ELSE asc

\* keySelector: the sort key of item i, a number or a string
keySelector(sortField, i) ==
    IF sortField = <<"d", "e", "s", "c", "r", "i", "p", "t", "i", "o", "n">>
    THEN [str |-> TRUE, v |-> i.Description]
    ELSE IF sortField = branchField THEN [str |-> TRUE, v |-> i.Branch]
    ELSE IF sortField = <<"a", "v", "a", "i", "l", "a", "b", "l", "e", "q", "t", "y">>
    THEN [str |-> FALSE, v |-> i.AvailableQty]
    ELSE IF sortField = <<"u", "o", "m">> THEN [str |-> TRUE, v |-> i.Uom]
    ELSE IF sortField = <<"l", "e", "a", "d", "t", "i", "m", "e", "d", "a", "y", "s">>
    THEN [str |-> FALSE,
          v |-> IF i.LeadTimeDays = <<>> THEN MaxInt ELSE i.LeadTimeDays[1]]
    ELSE IF sortField = <<"l", "a", "s", "t", "p", "u", "r", "c", "h", "a", "s", "e",
                          "d", "a", "t", "e">>
    THEN [str |-> FALSE,
          v |-> IF i.LastPurchaseDate = <<>> THEN MinDate ELSE i.LastPurchaseDate[1]]
    ELSE [str |-> TRUE, v |-> i.PartNumber]
\* Comparer<object>.Default on two keys of the same kind
KeyLess(a, b) == IF a.str THEN StrLess(a.v, b.v) ELSE a.v < b.v

\* x goes before e when sorting in direction dir
Before(x, e, sortField, descending) ==
    IF descending
    THEN KeyLess(keySelector(sortField, e), keySelector(sortField, x))
    ELSE KeyLess(keySelector(sortField, x), keySelector(sortField, e))
\* a stable sort: element k is placed after the elements that go before it
\* and after the earlier elements it does not go before
StableOrder(s, sortField, descending) ==
    LET n == Len(s)
        rank(k) == Cardinality({j \in 1..n :
                       \/ Before(s[j], s[k], sortField, descending)
                       \/ j < k /\ ~Before(s[k], s[j], sortField, descending)}) + 1
        placed == {<<rank(k), k>> : k \in 1..n}
    IN  [p \in 1..n |-> s[(CHOOSE pr \in placed : pr[1] = p)[2]]]
\* a descending sort done by reversing the ascending one
OrderByReversing(s, sortField, descending) ==
    LET up == StableOrder(s, sortField, FALSE)
    IN  IF descending THEN [k \in 1..Len(up) |-> up[Len(up) + 1 - k]] ELSE up
\* query.OrderBy(keySelector) / query.OrderByDescending(keySelector): stable sorts
OrderBy(s, sortField, descending) == StableOrder(s, sortField, descending)

\* Enumerable.Skip / Enumerable.Take
Skip(s, n) == IF n <= 0 THEN s ELSE IF n >= Len(s) THEN <<>> ELSE SubSeq(s, n + 1, Len(s))
Take(s, n) == IF n <= 0 THEN <<>> ELSE IF n >= Len(s) THEN s ELSE SubSeq(s, 1, n)

\* the filtered and sorted sequence of SearchInventoryAsync
Filtered(all, request) ==
    LET q1 == SelectSeq(all, LAMBDA i : CriteriaMatch(i, request))
        q2 == SelectSeq(q1, LAMBDA i : BranchMatch(i, request))
    IN  SelectSeq(q2, LAMBDA i : AvailableMatch(i, request))
Sorted(all, request) ==
    OrderBy(Filtered(all, request), sortFieldOf(request.Sort),
            sortDirOf(request.Sort) = desc)

\* a search that takes a non-positive size as it is
SearchInventoryAsyncUnclamped(all, request) ==
    LET query == Sorted(all, request)
        pg == IF request.Page < 0 THEN 0 ELSE request.Page
    IN  [Total |-> Len(query),
         Items |-> IF request.Size <= 0 THEN <<>>
                   ELSE Take(Skip(query, MulWrap(pg, request.Size)), request.Size)]
\* a search whose total is the number of items on the returned page
SearchInventoryAsyncPageCount(all, request) ==
    LET query == Sorted(all, request)
        size == IF request.Size <= 0 THEN DefaultSize ELSE request.Size
        pg == IF request.Page < 0 THEN 0 ELSE request.Page
        onPage == Take(Skip(query, MulWrap(pg, size)), size)
    IN  [Total |-> Len(onPage), Items |-> onPage]
SearchInventoryAsync(all, request) ==
    LET query == Sorted(all, request)
        size == IF request.Size <= 0 THEN DefaultSize ELSE request.Size
        pg == IF request.Page < 0 THEN 0 ELSE request.Page
    IN  [Total |-> Len(query),
         Items |-> Take(Skip(query, MulWrap(pg, size)), size)]

\* Enumerable.Sum on ints is checked: <<>> when it overflows, <<sum>> otherwise
RECURSIVE SumChecked(_)
SumChecked(s) ==
    IF s = <<>> THEN <<0>>
    ELSE LET r == SumChecked(SubSeq(s, 1, Len(s) - 1))
             x == s[Len(s)]
         IN  IF r = <<>> THEN <<>>
             ELSE IF (x > 0 /\ r[1] > MaxInt - x) \/ (x < 0 /\ r[1] < MinInt - x) THEN <<>>
             ELSE <<r[1] + x>>

\* a lookup by part number that accepts part numbers containing the one asked for
FindByPartNumberContaining(all, partNumber) ==
    LET normalized == toUpperCase(trim(partNumber))
    IN  SelectSeq(all, LAMBDA i : Contains(toUpperCase(trim(i.PartNumber)), normalized))
\* MockInventoryRepository.FindByPartNumberAsync
FindByPartNumberAsync(all, partNumber) ==
    LET normalized == toUpperCase(trim(partNumber))
    IN  SelectSeq(all, LAMBDA i : toUpperCase(trim(i.PartNumber)) = normalized)

\* a grouping on the stored branch code as it is
BranchKeyRaw(i) == i.Branch
\* GroupBy(i => (i.Branch ?? string.Empty).ToUpperInvariant())
BranchKey(i) == toUpperCase(i.Branch)
\* the keys of GroupBy, in order of first occurrence
RECURSIVE GroupKeys(_)
GroupKeys(s) ==
    IF s = <<>> THEN <<>>
    ELSE LET front == GroupKeys(SubSeq(s, 1, Len(s) - 1))
             k == BranchKey(s[Len(s)])
         IN  IF \E j \in 1..Len(front) : front[j] = k THEN front ELSE Append(front, k)
QtyOf(s) == [k \in 1..Len(s) |-> s[k].AvailableQty]
\* .Select(g => new BranchAvailability { Branch = g.Key, Qty = g.Sum(x => x.AvailableQty) })
Grouped(matches) ==
    LET keys == GroupKeys(matches)
    IN  [k \in 1..Len(keys) |->
            [Branch |-> keys[k],
             Qty |-> SumChecked(QtyOf(SelectSeq(matches, LAMBDA i : BranchKey(i) = keys[k])))]]
\* .OrderByDescending(b => b.Qty), a stable sort
RECURSIVE InsertByQty(_, _)
InsertByQty(x, s) ==
    IF s = <<>> THEN <<x>>
    ELSE IF Head(s).Qty < x.Qty THEN <<x>> \o s
    ELSE <<Head(s)>> \o InsertByQty(x, Tail(s))
RECURSIVE OrderByQtyDescending(_)
OrderByQtyDescending(s) ==
    IF s = <<>> THEN <<>>
    ELSE InsertByQty(s[Len(s)], OrderByQtyDescending(SubSeq(s, 1, Len(s) - 1)))

\* what a service method did: returned value (threw = <<>>) or threw an exception
\* of some kind with some message
Returned(value) == [threw |-> <<>>, value |-> <<value>>]
Threw(kind, message) ==
    [threw |-> <<[kind |-> kind, message |-> message]>>, value |-> <<>>]
ArgumentRequired ==
    Threw("ArgumentException", "partNumber is required (Parameter 'partNumber')")
Overflowed == Threw("OverflowException", "Arithmetic operation resulted in an overflow.")

\* a peak availability lookup for which an unknown part number is an error
GetPeakAvailabilityAsyncStrict(all, partNumber) ==
    LET matches == FindByPartNumberAsync(all, partNumber)
        sums == Grouped(matches)
        overflow == \E k \in 1..Len(sums) : sums[k].Qty = <<>>
        grouped == OrderByQtyDescending(
                        [k \in 1..Len(sums) |->
                            [Branch |-> sums[k].Branch, Qty |-> sums[k].Qty[1]]])
        totalAvailable == SumChecked([k \in 1..Len(grouped) |-> grouped[k].Qty])
    IN  IF IsNullOrWhiteSpace(partNumber) \/ matches = <<>> THEN ArgumentRequired
        ELSE IF overflow \/ totalAvailable = <<>> THEN Overflowed
        ELSE Returned([PartNumber |-> matches[1].PartNumber,
                       TotalAvailable |-> totalAvailable[1],
                       Branches |-> grouped])
GetPeakAvailabilityAsync(all, partNumber) ==
    LET matches == FindByPartNumberAsync(all, partNumber)
        sums == Grouped(matches)
        overflow == \E k \in 1..Len(sums) : sums[k].Qty = <<>>
        grouped == OrderByQtyDescending(
                        [k \in 1..Len(sums) |->
                            [Branch |-> sums[k].Branch, Qty |-> sums[k].Qty[1]]])
        totalAvailable == SumChecked([k \in 1..Len(grouped) |-> grouped[k].Qty])
    IN  IF IsNullOrWhiteSpace(partNumber) THEN ArgumentRequired
        ELSE IF matches = <<>>
        THEN Returned([PartNumber |-> trim(partNumber), TotalAvailable |-> 0,
                       Branches |-> <<>>])
        ELSE IF overflow \/ totalAvailable = <<>> THEN Overflowed
        ELSE Returned([PartNumber |-> matches[1].PartNumber,
                       TotalAvailable |-> totalAvailable[1],
                       Branches |-> grouped])

(***************************************************************************)
(* InventoryController                                                     *)
(***************************************************************************)
\* ResponseEnvelope<T>.Success(result) / ResponseEnvelope<T>.Failure(message)
\* with their HTTP status, and whether the service was invoked
Answer(status, isFailed, data, message, invoked) ==
    [status |-> status, isFailed |-> isFailed, data |-> data, message |-> message,
     invoked |-> invoked]
NoReply == Answer(0, FALSE, <<>>, "", FALSE)
NoCall == [op |-> "", request |-> <<>>, partNumber |-> <<>>]

\* the InventorySearchRequest built from the query parameters
RequestOf(params) ==
    [Criteria |-> params.criteria,
     By |-> IF IsNullOrWhiteSpace(params.by) THEN PartNumber ELSE params.by,
     Branches |-> params.branches,
     OnlyAvailable |-> params.onlyAvailable,
     Page |-> params.page,
     Size |-> params.size,
     Sort |-> params.sort]

\* The handlers share no mutable state (the repository is read-only), so
\* requests are taken one at a time: a request is handled in one step and its
\* response leaves in the next.
\* GET api/inventory/search
Search(params) ==
    /\ call = NoCall
    /\ call' = [op |-> "search", request |-> <<params>>, partNumber |-> <<>>]
    /\ reply' = LET r == Returned(SearchInventoryAsync(records, RequestOf(params)))
                IN  IF params.fail
                    THEN Answer(400, TRUE, <<>>, "Forced failure (fail=true)", FALSE)
                    ELSE IF r.threw # <<>>
                    THEN Answer(500, TRUE, <<>>, r.threw[1].message, TRUE)
                    ELSE Answer(200, FALSE, r.value, "", TRUE)
    /\ UNCHANGED <<records, svcVars, callerVars, keyVars, orchVars, tableVars>>

\* a peak availability endpoint that leaves the check of the part number to
\* the service
GetPeakAvailabilityUnguarded(partNumber) ==
    LET r == GetPeakAvailabilityAsync(records, partNumber)
    IN  /\ call = NoCall
        /\ call' = [op |-> "peak", request |-> <<>>, partNumber |-> <<partNumber>>]
        /\ reply' = IF r.threw # <<>>
                    THEN Answer(500, TRUE, <<>>, r.threw[1].message, TRUE)
                    ELSE Answer(200, FALSE, r.value, "", TRUE)
        /\ UNCHANGED <<records, svcVars, callerVars, keyVars, orchVars, tableVars>>
\* GET api/inventory/availability/peak
GetPeakAvailability(partNumber) ==
    LET r == GetPeakAvailabilityAsync(records, partNumber)
    IN  /\ call = NoCall
        /\ call' = [op |-> "peak", request |-> <<>>, partNumber |-> <<partNumber>>]
        /\ reply' = IF IsNullOrWhiteSpace(partNumber)
                    THEN Answer(400, TRUE, <<>>, "partNumber is required", FALSE)
                    ELSE IF r.threw # <<>>
                    THEN Answer(500, TRUE, <<>>, r.threw[1].message, TRUE)
                    ELSE Answer(200, FALSE, r.value, "", TRUE)
        /\ UNCHANGED <<records, svcVars, callerVars, keyVars, orchVars, tableVars>>

\* the action result is written to the client and the request ends
Complete ==
    /\ call # NoCall
    /\ call' = NoCall
    /\ reply' = NoReply
    /\ UNCHANGED <<records, svcVars, callerVars, keyVars, orchVars, tableVars>>

(***************************************************************************)
(* Callers of the service                                                  *)
(***************************************************************************)
Subscribers(h) == {c \in Callers : sub[c] = h}
\* shareReplay's refCount
SubCount(h) == Cardinality(Subscribers(h)) + (IF h \in inner THEN 1 ELSE 0)

\* what subscribers are handed: the outcome, the obs$ it came from and the
\* callers it is handed to
Delivery(h, o, to) == [h |-> h, err |-> o.err, res |-> o.res, to |-> to]
NoDelivery == [h |-> 0, err |-> FALSE, res |-> <<>>, to |-> {}]

\* the result the response$ subscribers were handed: the obs$ it came from,
\* whether a trigger had arrived since its request was issued, the envelope
\* and the items list it replaced
Published(h, st, env) == [h |-> h, stale |-> st, res |-> <<env>>, prior |-> items]
NoPub == [h |-> 0, stale |-> FALSE, res |-> <<>>, prior |-> <<>>]

\* what a search()/getPeakAvailability() call found in cache array c: a hit,
\* an entry for the key past its expiry (stale), a cache full of unexpired entries
Found(name, c, key, r) ==
    [name |-> name, obs |-> r.obs, hit |-> r.hit,
     stale |-> \E i \in 1..Len(c) : c[i].key = key /\ c[i].expiry < now,
     full |-> Len(Sweep(c, now)) = CACHE_MAX_ENTRIES]
NoGet == [name |-> "", obs |-> 0, hit |-> FALSE, stale |-> FALSE, full |-> FALSE]

\* a remember that assigns the new array to both fields
AssignBackBoth(name, field, next, old) == next
\* remember(): if (cache === this.cache) this.cache = next else this.peakCache = next;
\* the new value of the field named field after a call on the cache named name
AssignBack(name, field, next, old) == IF name = field THEN next ELSE old

\* caller c calls search()/getPeakAvailability() and subscribes to the result
CallerGet(c, name, key, limit) ==
    LET r == GetOrCreate(IF name = "search" THEN cache ELSE peakCache, key)
        hs0 == IF r.hit THEN handles ELSE Append(handles, NewHandle(name, key))
        hs1 == Subscribe(hs0, r.obs)
        replay == Completed(hs1, r.obs)
        sub1 == IF replay THEN sub ELSE [sub EXCEPT ![c] = r.obs]
    IN  /\ sub[c] = 0
        /\ r.hit \/ Len(handles) < limit
        /\ cache' = AssignBack(name, "search", r.cache, cache)
        /\ peakCache' = AssignBack(name, "peak", r.cache, peakCache)
        /\ sub' = sub1
        /\ handles' = Collect(hs1, cache', peakCache', sub1, inner)
        /\ delivered' = IF replay
                        THEN Delivery(r.obs, [err |-> FALSE, res |-> hs1[r.obs].buf], {c})
                        ELSE NoDelivery
        /\ lastGet' = Found(name, IF name = "search" THEN cache ELSE peakCache, key, r)
        /\ pub' = NoPub
        /\ issuedQ' = <<>>
        /\ UNCHANGED <<now, keyVars, serverVars, tableVars, formVars, shownVars, pipeVars>>
        /\ UNCHANGED <<latest, stale, dropped, burst, lastTrigger>>

\* the keys of the queries the callers issue
KeyOf == [q \in SearchInputs \cup CapInputs |-> cacheKey(q)]
CallSearch(c, q, limit) == CallerGet(c, "search", KeyOf[q], limit)
\* the capacity scenario walks the pages in order
Asked(key) == \E h \in 1..Len(handles) : handles[h].key = key
CallNextPage(c, q, limit) ==
    /\ q.page > 0 => Asked(KeyOf[[q EXCEPT !.page = @ - 1]])
    /\ CallSearch(c, q, limit)
\* the two-cache scenario asks for every page once
CallFreshPage(c, q, limit) ==
    /\ ~Asked(KeyOf[q])
    /\ CallNextPage(c, q, limit)
PeakKeyOf == [pn \in PeakInputs \cup CapPeakInputs \cup IndepPeakInputs |-> peakKey(pn)]
CallPeak(c, pn, limit) == CallerGet(c, "peak", PeakKeyOf[pn], limit)

\* caller c unsubscribes before the outcome has arrived
Cancel(c) ==
    /\ sub[c] # 0
    /\ sub' = [sub EXCEPT ![c] = 0]
    /\ handles' = Collect(Unsubscribe(handles, sub[c], SubCount(sub[c]) - 1),
                           cache, peakCache, sub', inner)
    /\ delivered' = NoDelivery
    /\ lastGet' = NoGet
    /\ pub' = NoPub
    /\ issuedQ' = <<>>
    /\ UNCHANGED <<now, cache, peakCache, keyVars, serverVars, tableVars, formVars, shownVars, pipeVars>>
    /\ UNCHANGED <<latest, stale, dropped, burst, lastTrigger>>

(***************************************************************************)
(* IndexPageComponent                                                      *)
(***************************************************************************)
_debounce == 50
pageSize == 20
null == "null"
\* the clock is sampled every half debounce interval while a timer is pending
HalfDebounce == _debounce \div 2
MaxFine == 4
MaxBurst == 2
OrchHandles == 3

\* what the user can type into the criteria field, the headers that can be
\* clicked and the page indexes the table can ask for
FormCriteria == {<<>>, <<"a">>}
SortFields == {branchField}
PageInputs == {-1, 0, 1}
OrchOutcomes(h) ==
    {Responded(OkEnv(h, 45)), Responded(FailEnv("boom")), Responded(FailEnv("")),
     TransportError}

\* this.fb.group({criteria: ['', Validators.required], by: ['PartNumber', ...], ...})
InitialForm ==
    [criteria |-> <<>>, by |-> PartNumber, branches |-> <<>>, onlyAvailable |-> FALSE]
InitialSort == [field |-> <<>>, direction |-> asc]
\* this.form.invalid: criteria is required, by always has a value
invalid(f) == f.criteria = <<>>

\* buildQuery(): <<>> for null, otherwise <<query>>
buildQuery(f, s, p) ==
    IF f.criteria = <<>> \/ invalid(f) THEN <<>>
    ELSE <<[criteria |-> trim(f.criteria),
            by |-> f.by,
            branches |-> [i \in 1..Len(f.branches) |-> toUpperCase(f.branches[i])],
            onlyAvailable |-> f.onlyAvailable,
            page |-> p,
            size |-> pageSize,
            sort |-> IF s.field # <<>> THEN s ELSE NoSort]>>

\* the keys of the queries the page can build
OrchKeyOf ==
    [q \in {[criteria |-> trim(c), by |-> PartNumber, branches |-> <<>>,
             onlyAvailable |-> FALSE, page |-> p, size |-> pageSize, sort |-> so] :
                c \in FormCriteria, p \in 0..2,
                so \in {NoSort} \cup {[field |-> f, direction |-> d] :
                                        f \in SortFields, d \in {asc, desc}}}
        |-> cacheKey(q)]

\* a timer that an arriving value does not restart
RestartKeep(pending, due, t) == IF pending THEN due ELSE t + _debounce
\* debounceTime(this._debounce): a value arriving at time t (re)starts the timer
Restart(pending, due, t) == t + _debounce

\* tap(res => this.errorMessage = res.isFailed ? res.message || 'Search failed' : null)
tapMessage(res) ==
    IF res.isFailed
    THEN (IF res.message = "" THEN "Search failed" ELSE res.message)
    ELSE null
\* map(res => (res.isFailed || !res.data ? [] : res.data.items))
itemsOf(res) ==
    IF res.isFailed \/ res.data = <<>> THEN <<>> ELSE res.data[1].items
\* a total mapping that keeps the published total
totalOfKeep(res) == total
\* map(res => (res.isFailed || !res.data ? 0 : res.data.total))
totalOf(res) ==
    IF res.isFailed \/ res.data = <<>> THEN 0 ELSE res.data[1].total

\* a flattening operator that keeps every inner subscription (mergeMap)
SupersededNone(in) == {}
\* switchMap: the inner subscriptions unsubscribed when a new query arrives
Superseded(in) == in

\* a value enters merge(searchTrigger$, sortState$, page$).pipe(debounceTime(...))
\* on behalf of a user action
Trigger ==
    /\ debouncing' = alive
    /\ deadline' = IF alive THEN Restart(debouncing, deadline, now) ELSE deadline
    /\ burst' = IF ~alive THEN burst
                ELSE IF debouncing /\ burst < MaxBurst THEN burst + 1
                ELSE IF debouncing THEN burst ELSE 1
    /\ lastTrigger' = IF alive THEN now ELSE lastTrigger
    /\ stale' = (stale \/ inner # {})
    /\ pub' = NoPub
    /\ issuedQ' = <<>>
    /\ delivered' = NoDelivery
    /\ lastGet' = NoGet
    /\ UNCHANGED <<alive, inner, latest, dropped, svcVars, sub, keyVars, serverVars>>

\* the user edits the criteria field
SetCriteria(c) ==
    /\ c # form.criteria
    /\ form' = [form EXCEPT !.criteria = c]
    /\ pub' = NoPub
    /\ issuedQ' = <<>>
    /\ delivered' = NoDelivery
    /\ lastGet' = NoGet
    /\ UNCHANGED <<sortState, page, currentPage, shownVars, pipeVars>>
    /\ UNCHANGED <<latest, stale, dropped, burst, lastTrigger, svcVars, sub, keyVars, serverVars, tableVars>>

\* an onSearch that leaves loading to the pipeline
onSearchDeferred ==
    IF invalid(form)
    THEN /\ errorMessage' = "Enter search criteria to begin."
         /\ pub' = NoPub
         /\ issuedQ' = <<>>
         /\ delivered' = NoDelivery
         /\ lastGet' = NoGet
         /\ UNCHANGED <<formVars, loading, items, total, pipeVars>>
         /\ UNCHANGED <<latest, stale, dropped, burst, lastTrigger, svcVars, sub, keyVars, serverVars, tableVars>>
    ELSE /\ errorMessage' = null
         /\ currentPage' = 0
         /\ page' = 0
         /\ Trigger
         /\ UNCHANGED <<form, sortState, items, total, loading, tableVars>>

onSearch ==
    IF invalid(form)
    THEN /\ errorMessage' = "Enter search criteria to begin."
         /\ pub' = NoPub
         /\ issuedQ' = <<>>
         /\ delivered' = NoDelivery
         /\ lastGet' = NoGet
         /\ UNCHANGED <<formVars, loading, items, total, pipeVars>>
         /\ UNCHANGED <<latest, stale, dropped, burst, lastTrigger, svcVars, sub, keyVars, serverVars, tableVars>>
    ELSE /\ errorMessage' = null
         /\ loading' = TRUE
         /\ currentPage' = 0
         /\ page' = 0
         /\ Trigger
         /\ UNCHANGED <<form, sortState, items, total, tableVars>>

onSort(field) ==
    /\ sortState' = [field |-> field,
                     direction |-> IF sortState.field = field /\ sortState.direction = asc
                                   THEN desc ELSE asc]
    /\ currentPage' = 0
    /\ page' = 0
    /\ Trigger
    /\ UNCHANGED <<form, shownVars>>

onPageChange(index) ==
    /\ currentPage' = (IF index > 0 THEN index ELSE 0)
    /\ page' = currentPage'
    /\ Trigger
    /\ UNCHANGED <<form, sortState, shownVars>>

(***************************************************************************)
(* ResultsTableComponent                                                   *)
(***************************************************************************)
\* the page template binds the table's inputs and listens to its outputs:
\* total to total$, (sort) to onSort($event), (pageChange) to onPageChange($event)
tableTotal == total
sortListener(field) == onSort(field)
pageChangeListener(index) == onPageChange(index)

\* Math.ceil(a / b) for a >= 0, b > 0
Ceil(a, b) == (a + b - 1) \div b
\* totalPages(total, size): Math.max(1, Math.ceil((total ?? 0) / (size || 1)))
totalPages(t, size) ==
    LET pages == Ceil(t, IF size = 0 THEN 1 ELSE size)
    IN  IF pages > 1 THEN pages ELSE 1

\* onHeaderClick(field): toggles or sets currentSort, resets pageIndex and
\* emits sort
onHeaderClick(field) ==
    /\ currentSort' = IF currentSort # <<>> /\ currentSort[1].field = field
                      THEN <<[field |-> field,
                              direction |-> IF currentSort[1].direction = asc
                                            THEN desc ELSE asc]>>
                      ELSE <<[field |-> field, direction |-> asc]>>
    /\ pageIndex' = 0
    /\ sortListener(field)

\* goTo(page): clamps to [0, totalPages - 1], sets pageIndex and emits pageChange
goTo(toPage) ==
    LET maxPage == totalPages(tableTotal, pageSize) - 1
        atLeast0 == IF toPage > 0 THEN toPage ELSE 0
    IN  /\ pageIndex' = (IF atLeast0 < maxPage THEN atLeast0 ELSE maxPage)
        /\ pageChangeListener(pageIndex')
        /\ UNCHANGED currentSort

\* the debounce timer is due: map(buildQuery), filter, tap, switchMap
DebounceFire ==
    LET bq == buildQuery(form, sortState, page)
        olds == Superseded(inner)
        hs1 == [h \in 1..Len(handles) |->
                   IF h \in olds
                   THEN Unsubscribe(handles, h, Cardinality(Subscribers(h)))[h]
                   ELSE handles[h]]
        r == GetOrCreate(cache, OrchKeyOf[bq[1]])
        hs2 == IF r.hit THEN hs1
               ELSE Append(hs1, NewHandle("search", OrchKeyOf[bq[1]]))
        hs3 == Subscribe(hs2, r.obs)
        replay == Completed(hs3, r.obs)
        in1 == (inner \ olds) \cup (IF replay THEN {} ELSE {r.obs})
    IN  /\ alive /\ debouncing /\ now >= deadline
        /\ debouncing' = FALSE
        /\ deadline' = 0
        /\ delivered' = NoDelivery
        /\ lastGet' = NoGet
        /\ UNCHANGED <<now, peakCache, sub, keyVars, serverVars, tableVars, formVars, alive, burst, lastTrigger>>
        /\ IF bq = <<>>
           THEN /\ pub' = NoPub
                /\ issuedQ' = <<>>
                /\ UNCHANGED <<cache, handles, shownVars, inner, latest, stale, dropped>>
           ELSE /\ r.hit \/ Len(handles) < OrchHandles
                /\ cache' = r.cache
                /\ inner' = in1
                /\ handles' = Collect(hs3, r.cache, peakCache, sub, in1)
                /\ latest' = r.obs
                /\ stale' = FALSE
                /\ dropped' = (olds # {})
                /\ issuedQ' = bq
                /\ loading' = ~(replay \/ olds # {})
                /\ IF replay
                   THEN /\ errorMessage' = tapMessage(hs3[r.obs].buf[1])
                        /\ items' = itemsOf(hs3[r.obs].buf[1])
                        /\ total' = totalOf(hs3[r.obs].buf[1])
                        /\ pub' = Published(r.obs, FALSE, hs3[r.obs].buf[1])
                   ELSE /\ errorMessage' = null
                        /\ pub' = NoPub
                        /\ UNCHANGED <<items, total>>

\* the outcome o of obs$ h reaches the page when switchMap is subscribed to h
Deliver(h, o) ==
    IF h \notin inner
    THEN /\ pub' = NoPub
         /\ UNCHANGED <<shownVars, pipeVars>>
    ELSE IF o.err
    THEN /\ loading' = FALSE
         /\ alive' = FALSE
         /\ debouncing' = FALSE
         /\ deadline' = 0
         /\ inner' = {}
         /\ pub' = NoPub
         /\ UNCHANGED <<items, total, errorMessage>>
    ELSE /\ errorMessage' = tapMessage(o.res[1])
         /\ items' = itemsOf(o.res[1])
         /\ total' = totalOf(o.res[1])
         /\ loading' = FALSE
         /\ inner' = inner \ {h}
         /\ pub' = Published(h, stale, o.res[1])
         /\ UNCHANGED <<alive, debouncing, deadline>>

\* the HTTP call of obs$ h produces its outcome o
Respond(h, o) ==
    /\ InFlight(handles, h)
    /\ cache' = TapFailed(cache, "search", h, o)
    /\ peakCache' = TapFailed(peakCache, "peak", h, o)
    /\ sub' = [c \in Callers |-> IF sub[c] = h THEN 0 ELSE sub[c]]
    /\ Deliver(h, o)
    /\ handles' = Collect(Settle(handles, h, o), cache', peakCache', sub', inner')
    /\ delivered' = Delivery(h, o, Subscribers(h))
    /\ lastGet' = NoGet
    /\ issuedQ' = <<>>
    /\ UNCHANGED <<now, keyVars, serverVars, tableVars, formVars, latest, stale, dropped, burst, lastTrigger>>

\* time passes
Tick ==
    /\ now + TickStep <= MaxTicks * TickStep
    /\ now' = now + TickStep
    /\ delivered' = NoDelivery
    /\ lastGet' = NoGet
    /\ pub' = NoPub
    /\ issuedQ' = <<>>
    /\ UNCHANGED <<cache, peakCache, handles, sub, keyVars, serverVars, tableVars>>
    /\ UNCHANGED <<formVars, shownVars, pipeVars, latest, stale, dropped, burst, lastTrigger>>

\* time passes while the debounce timer is pending
FineTick ==
    /\ debouncing
    /\ (now % TickStep) + HalfDebounce <= MaxFine * HalfDebounce
    /\ now' = now + HalfDebounce
    /\ delivered' = NoDelivery
    /\ lastGet' = NoGet
    /\ pub' = NoPub
    /\ issuedQ' = <<>>
    /\ UNCHANGED <<cache, peakCache, handles, sub, keyVars, serverVars, tableVars>>
    /\ UNCHANGED <<formVars, shownVars, pipeVars, latest, stale, dropped, burst, lastTrigger>>

InitService ==
    /\ now = 0
    /\ cache = <<>>
    /\ peakCache = <<>>
    /\ handles = <<>>
InitCallers ==
    /\ sub = [c \in Callers |-> 0]
    /\ delivered = NoDelivery
    /\ lastGet = NoGet
\* no request has reached the server
InitServerIdle ==
    /\ records = <<>>
    /\ call = NoCall
    /\ reply = NoReply
InitKeyIdle ==
    /\ kq1 = Q(<<>>, <<>>, 0)
    /\ kq2 = Q(<<>>, <<>>, 0)
    /\ kk1 = <<>>
    /\ kk2 = <<>>

InitHistory ==
    /\ latest = 0
    /\ stale = FALSE
    /\ dropped = FALSE
    /\ burst = 0
    /\ lastTrigger = 0
    /\ pub = NoPub
    /\ issuedQ = <<>>
\* ResultsTableComponent: pageIndex = 0, currentSort = null
InitTable ==
    /\ pageIndex = 0
    /\ currentSort = <<>>
\* the page and the results table it hosts
InitPage ==
    /\ form = InitialForm
    /\ sortState = InitialSort
    /\ page = 0
    /\ currentPage = 0
    /\ loading = FALSE
    /\ items = <<>>
    /\ total = 0
    /\ errorMessage = null
    /\ inner = {}
    /\ InitHistory
    /\ InitTable
\* no page is mounted: nothing is subscribed to the triggers
InitOrchIdle ==
    /\ InitPage
    /\ alive = FALSE
    /\ debouncing = FALSE
    /\ deadline = 0
\* after ngOnInit(): sortState$ and page$ have emitted their current values
\* into debounceTime
InitOrch ==
    /\ InitPage
    /\ alive = TRUE
    /\ debouncing = TRUE
    /\ deadline = _debounce

Init == InitService /\ InitCallers /\ InitKeyIdle /\ InitOrchIdle /\ InitServerIdle

Next ==
    \/ \E c \in Callers, q \in SearchInputs : CallSearch(c, q, MaxHandles)
    \/ \E c \in Callers, pn \in PeakInputs : CallPeak(c, pn, MaxHandles)
    \/ \E c \in Callers : Cancel(c)
    \/ \E h \in 1..Len(handles) : \E o \in CacheOutcomes(h) : Respond(h, o)
    \/ Tick

Spec == Init /\ [][Next]_vars

\* the capacity scenario: one caller, more distinct keys than a cache holds
NextCap ==
    \/ \E q \in CapInputs : CallNextPage("c1", q, CapHandles)
    \/ \E pn \in CapPeakInputs : CallPeak("c1", pn, CapHandles)
    \/ \E h \in 1..Len(handles) : \E o \in CapOutcomes(h) : Respond(h, o)
    \/ Tick

SpecCap == Init /\ [][NextCap]_vars

\* the two-cache scenario: one caller fills the search cache and uses the
\* peak cache, responses succeed or fail
NextIndep ==
    \/ \E q \in CapInputs : CallFreshPage("c1", q, CapHandles)
    \/ \E pn \in IndepPeakInputs : CallPeak("c1", pn, CapHandles)
    \/ \E h \in 1..Len(handles) : \E o \in IndepOutcomes(h) : Respond(h, o)

SpecIndep == Init /\ [][NextIndep]_vars

\* the search page on top of the service
InitPageMounted ==
    InitService /\ InitCallers /\ InitKeyIdle /\ InitOrch /\ InitServerIdle
NextOrch ==
    \/ \E c \in FormCriteria : SetCriteria(c)
    \/ onSearch
    \/ \E f \in SortFields : onSort(f) /\ UNCHANGED tableVars
    \/ \E p \in PageInputs : onPageChange(p) /\ UNCHANGED tableVars
    \/ DebounceFire
    \/ \E h \in 1..Len(handles) : \E o \in OrchOutcomes(h) : Respond(h, o)
    \/ FineTick

SpecOrch == InitPageMounted /\ [][NextOrch]_vars

\* The page driven through its results table: header clicks and page
\* navigations reach the page as the table's sort and pageChange events.
TablePages == -1..3
NextTable ==
    \/ \E c \in FormCriteria : SetCriteria(c)
    \/ onSearch
    \/ \E f \in SortFields : onHeaderClick(f)
    \/ \E p \in TablePages : goTo(p)
    \/ DebounceFire
    \/ \E h \in 1..Len(handles) : \E o \in OrchOutcomes(h) : Respond(h, o)
    \/ FineTick
SpecTable == InitPageMounted /\ [][NextTable]_vars

\* The page with a user who stops acting: user actions happen only while a
\* debounce window started now can still elapse.  Time passes, a due debounce
\* timer fires and every HTTP call in flight produces an outcome.
UserMayAct == now + _debounce <= MaxFine * HalfDebounce
LivePages == {0, 1}
NextOrchLive ==
    \/ UserMayAct /\ \E c \in FormCriteria : SetCriteria(c)
    \/ UserMayAct /\ onSearch
    \/ UserMayAct /\ \E p \in LivePages : onPageChange(p) /\ UNCHANGED tableVars
    \/ DebounceFire
    \/ \E h \in 1..Len(handles) : \E o \in OrchOutcomes(h) : Respond(h, o)
    \/ FineTick
SpecOrchLive ==
    /\ InitPageMounted
    /\ [][NextOrchLive]_vars
    /\ WF_vars(DebounceFire)
    /\ WF_vars(FineTick)
    /\ WF_vars(\E h \in 1..Len(handles) : \E o \in OrchOutcomes(h) : Respond(h, o))

(***************************************************************************)
(* The server: records of the repository and the two endpoints             *)
(***************************************************************************)
Item(part, descr, sku, branch, qty, uom, lead, date) ==
    [PartNumber |-> part, Description |-> descr, SupplierSku |-> sku, Branch |-> branch,
     AvailableQty |-> qty, Uom |-> uom, LeadTimeDays |-> lead, LastPurchaseDate |-> date]
\* LeadTimeDays and LastPurchaseDate are <<>> when absent; dates count days
\* from DateTime.MinValue
R1 == Item(<<"P", "1">>, <<"D", "2">>, <<"S", "1">>, SEA, 5, <<"E", "A">>, <<3>>, <<>>)
R2 == Item(<<"P", "1", "0">>, <<"D", "1">>, <<"S", "2">>, <<"s", "e", "a">>, 0, <<"B", "X">>, <<>>, <<7>>)
R3 == Item(<<"P", "1">>, <<"D", "2">>, <<"S", "3">>, PDX, 5, <<"E", "A">>, <<>>, <<2>>)
R4 == Item(<<"p", "1", " ">>, <<"D", "3">>, <<"S", "4">>, SEA, 2, <<"B", "X">>, <<3>>, <<>>)
R5 == Item(<<"P", "1">>, <<"D", "1">>, <<"S", "5">>, <<"s", "e", "a">>, 1, <<"E", "A">>, <<9>>, <<7>>)
R6 == Item(<<"P", "9">>, <<"D", "9">>, <<"S", "6">>, SEA, MaxInt, <<"E", "A">>, <<MaxInt>>, <<MinDate>>)
R7 == Item(<<"P", "9">>, <<"D", "9">>, <<"S", "7">>, SEA, 1, <<"E", "A">>, <<1>>, <<1>>)
RecordSets ==
    {<<>>, <<R1, R2, R3>>, <<R3, R2, R1>>, <<R1, R2, R3, R4, R5>>,
     <<R5, R4, R3, R1, R2>>, <<R3, R6, R1, R7>>}

\* a page index and a page size whose product is 2^32
BigPage == 2 ^ 16
ServerCriteria == {<<>>, <<"1">>, <<" ", "d", "2">>}
ServerBy == {PartNumber, Description}
ServerBranches == {<<>>, <<"s", "e", "a">>, <<",">>, <<"S", "E", "A", ",", " ", "p", "d", "x">>}
ServerPages == {-1, 0, 1, BigPage}
ServerSizes == {0, 2, BigPage}
ServerSorts ==
    {<<>>, <<"d", "e", "s", "c", "r", "i", "p", "t", "i", "o", "n", ":", "a", "s", "c">>, <<"d", "e", "s", "c", "r", "i", "p", "t", "i", "o", "n", ":", "d", "e", "s", "c">>, <<"l", "e", "a", "d", "T", "i", "m", "e", "D", "a", "y", "s", ":", "a", "s", "c">>,
     <<"l", "e", "a", "d", "T", "i", "m", "e", "D", "a", "y", "s", ":", "d", "e", "s", "c">>, <<"l", "a", "s", "t", "P", "u", "r", "c", "h", "a", "s", "e", "D", "a", "t", "e", ":", "a", "s", "c">>, <<"l", "a", "s", "t", "P", "u", "r", "c", "h", "a", "s", "e", "D", "a", "t", "e", ":", "d", "e", "s", "c">>}
Params(criteria, by, branches, onlyAvailable, pg, size, sort, fail) ==
    [criteria |-> criteria, by |-> by, branches |-> branches,
     onlyAvailable |-> onlyAvailable, page |-> pg, size |-> size, sort |-> sort,
     fail |-> fail]
ServerRequests ==
    {Params(c, b, br, oa, pg, sz, so, FALSE) :
        c \in ServerCriteria, b \in ServerBy, br \in ServerBranches, oa \in BOOLEAN,
        pg \in ServerPages, sz \in ServerSizes, so \in ServerSorts}
    \cup {Params(<<>>, <<>>, <<>>, FALSE, 0, 20, <<>>, fl) : fl \in BOOLEAN}
    \cup {Params(<<"s", "3">>, SupplierSKU, <<>>, FALSE, 0, 20, <<"u", "o", "m", ":", "a", "s", "c">>, FALSE),
          Params(<<>>, <<>>, <<" ">>, FALSE, 0, 2, <<"b", "r", "a", "n", "c", "h", ":", "d", "e", "s", "c">>, FALSE),
          Params(<<>>, PartNumber, <<>>, FALSE, 1, -5, <<>>, FALSE),
          Params(<<>>, PartNumber, <<>>, FALSE, -7, -5, <<>>, FALSE),
          Params(<<>>, PartNumber, <<>>, TRUE, 0, 20, <<"a", "v", "a", "i", "l", "a", "b", "l", "e", "Q", "t", "y", ":", "d", "e", "s", "c">>, FALSE)}
ServerPartNumbers == {<<>>, <<" ">>, <<"P", "1">>, <<" ", "p", "1">>, <<"P", "1", "0">>, <<"P", "9">>, <<" ", "Z", "Z", " ">>, <<"P">>}

InitServer ==
    /\ InitService /\ InitCallers /\ InitKeyIdle /\ InitOrchIdle
    /\ records \in RecordSets
    /\ call = NoCall
    /\ reply = NoReply
NextServer ==
    \/ \E params \in ServerRequests : Search(params)
    \/ \E partNumber \in ServerPartNumbers : GetPeakAvailability(partNumber)
    \/ Complete
SpecServer == InitServer /\ [][NextServer]_vars

(***************************************************************************)
(* MockInventoryRepository: the seeded records                             *)
(***************************************************************************)
SeedCount == 60
SeedBranches == <<SEA, PDX, <<"S", "F", "O">>, <<"L", "A", "X">>, <<"D", "E", "N">>, <<"D", "A", "L">>, <<"O", "R", "D">>, <<"A", "T", "L">>, <<"J", "F", "K">>>>
SeedUoms == <<<<"E", "A">>, <<"B", "X">>, <<"C", "S">>>>
\* partIndex while record i is built: it is incremented after every record
\* with i % 3 == 0
PartIndexAt(i) == IF i = 0 THEN 0 ELSE ((i - 1) \div 3) + 1
\* The quantity, lead time and last purchase date of a seeded record come from
\* Random(1234); the quantity is kept as a stand-in in the range of
\* rng.Next(0, 600), the two optional values as absent.  The requests of
\* SpecSeed read none of the three.
SeedItem(i) ==
    Item(<<"P", "N", "-">> \o NumToStr(1000 + PartIndexAt(i)),
         <<"M", "o", "c", "k", " ", "p", "a", "r", "t", " ">> \o NumToStr(PartIndexAt(i)) \o <<" ", "-", " ">>
            \o (IF i % 2 = 0 THEN <<"s", "t", "a", "n", "d", "a", "r", "d">> ELSE <<"p", "r", "e", "m", "i", "u", "m">>),
         <<"S", "U", "P", "-">> \o NumToStr(5000 + PartIndexAt(i)),
         SeedBranches[(i % Len(SeedBranches)) + 1],
         i, SeedUoms[(i % Len(SeedUoms)) + 1], <<>>, <<>>)
\* _items after the constructor: records 0 .. 59
SeedItems == [k \in 1..SeedCount |-> SeedItem(k - 1)]

SeedPages == -1..5
SeedSizes == {0, 10, 20}
SeedCriteria == {<<>>, <<"p", "n", "-">>, <<"P", "N", "-", "1", "0", "0", "0">>}
SeedSorts == {<<>>, <<"b", "r", "a", "n", "c", "h", ":", "d", "e", "s", "c">>}
SeedRequests ==
    {Params(c, PartNumber, <<>>, FALSE, pg, sz, so, FALSE) :
        c \in SeedCriteria, pg \in SeedPages, sz \in SeedSizes, so \in SeedSorts}

InitSeed ==
    /\ InitService /\ InitCallers /\ InitKeyIdle /\ InitOrchIdle
    /\ records = SeedItems
    /\ call = NoCall
    /\ reply = NoReply
NextSeed ==
    \/ \E params \in SeedRequests : Search(params)
    \/ Complete
SpecSeed == InitSeed /\ [][NextSeed]_vars

(***************************************************************************)
(* cacheKey on pairs of queries                                            *)
(***************************************************************************)
KeyCriteria == {<<"a">>, <<" ", "A", " ">>, <<"a", ":">>}
KeyBranches ==
    {<<>>, <<<<"A">>>>, <<<<"A">>, <<"B">>>>, <<<<" ", "b">>, <<"a", " ">>>>,
     <<<<"A", "|", "B">>>>}
KeySorts == {NoSort, [field |-> branchField, direction |-> asc]}
KeyQueries ==
    {[criteria |-> c, by |-> b, branches |-> br, onlyAvailable |-> av,
      page |-> p, size |-> 20, sort |-> so] :
        c \in KeyCriteria, b \in {PartNumber, Description}, br \in KeyBranches,
        av \in BOOLEAN, p \in 0..1, so \in KeySorts}

InitKey ==
    /\ InitService /\ InitCallers /\ InitOrchIdle /\ InitServerIdle
    /\ kq1 \in KeyQueries
    /\ kq2 = kq1
    /\ kk1 = <<>>
    /\ kk2 = <<>>

\* cacheKey is applied to the first query and to a second one
ComputeKeys(q) ==
    /\ kk1 = <<>>
    /\ kq2' = q
    /\ kk1' = cacheKey(kq1)
    /\ kk2' = cacheKey(q)
    /\ UNCHANGED <<kq1, svcVars, callerVars, orchVars, serverVars, tableVars>>

NextKey == \E q \in KeyQueries : ComputeKeys(q)

SpecKey == InitKey /\ [][NextKey]_vars

Range(f) == {f[i] : i \in DOMAIN f}
Count(x, f) == Cardinality({i \in DOMAIN f : f[i] = x})
\* the trimmed, upper-cased branch codes of q
NormBranches(q) == [i \in 1..Len(q.branches) |-> toUpperCase(trim(q.branches[i]))]
\* the same branch codes up to order, letter case and surrounding whitespace
SameBranches(q1, q2) ==
    /\ Len(q1.branches) = Len(q2.branches)
    /\ \A x \in Range(NormBranches(q1)) \cup Range(NormBranches(q2)) :
          Count(x, NormBranches(q1)) = Count(x, NormBranches(q2))
SameCriteria(q1, q2) == toLowerCase(trim(q1.criteria)) = toLowerCase(trim(q2.criteria))
\* the sort parameter search() sends: none when the field is empty
SortSent(q) == IF q.sort.field = <<>> THEN NoSort ELSE q.sort
SameOtherFields(q1, q2) ==
    /\ q1.by = q2.by /\ q1.onlyAvailable = q2.onlyAvailable
    /\ q1.page = q2.page /\ q1.size = q2.size
    /\ SortSent(q1) = SortSent(q2)

\* C9: two queries that differ only in the order of their branch codes, in
\* the letter case or surrounding whitespace of branch codes, or in the
\* letter case or surrounding whitespace of the criteria get the same key.
C9_KeyNormalised ==
    (kk1 # <<>> /\ SameBranches(kq1, kq2) /\ SameCriteria(kq1, kq2)
        /\ SameOtherFields(kq1, kq2))
    => kk1 = kk2
\* two queries with differently written criteria and differently ordered
\* and written branch codes have been keyed alike
C9_Witness ==
    /\ kk1 # <<>> /\ kk1 = kk2
    /\ kq1.criteria # kq2.criteria
    /\ Len(kq1.branches) = 2
    /\ NormBranches(kq1) # NormBranches(kq2)
    /\ SameBranches(kq1, kq2)

EqualButPage == [kq1 EXCEPT !.page = kq2.page] = kq2

\* C26, as stated: two queries that are equal in every field other than the
\* page index get the same key.
C26_KeyIgnoresPage ==
    (kk1 # <<>> /\ EqualButPage) => kk1 = kk2
\* C26, as the code has it: the page index is part of the key; two queries
\* that are equal in every other field get the same key exactly when their
\* page indices are equal.
C26_KeyIncludesPage ==
    (kk1 # <<>> /\ EqualButPage) => (kk1 = kk2 <=> kq1.page = kq2.page)
\* two queries that differ in the page index only have been keyed
C26_Witness ==
    /\ kk1 # <<>>
    /\ EqualButPage
    /\ kq1.page # kq2.page
    /\ kk1 # kk2

(***************************************************************************)
(* Properties of the request cache                                         *)
(***************************************************************************)
CacheNamed(name) == IF name = "search" THEN cache ELSE peakCache
CacheNamedNext(name) == IF name = "search" THEN cache' ELSE peakCache'
\* the calls the two service callers make: which cache, which key
Gets ==
    {[name |-> "search", key |-> KeyOf[q]] : q \in SearchInputs}
    \cup {[name |-> "peak", key |-> PeakKeyOf[pn]] : pn \in PeakInputs}
\* the unexpired entries of cache array c for key
LiveFor(c, key) == Hits(Sweep(c, now), key)

\* C1, as stated: callers that have requested the same key of the same cache
\* and are waiting for the outcome are attached to one and the same upstream
\* HTTP call.
C1_OneCallPerKey ==
    \A a, b \in Callers :
        (/\ sub[a] # 0 /\ sub[b] # 0
         /\ handles[sub[a]].cache = handles[sub[b]].cache
         /\ handles[sub[a]].key = handles[sub[b]].key)
        => (sub[a] = sub[b] /\ handles[sub[a]].calls = 1)

\* C1, amended: a caller that requests a key whose entry is still in the
\* cache, unexpired, while that entry's upstream call is in flight attaches to
\* that call (no new observable, no new HTTP call), and when the outcome
\* arrives it is the outcome of that one call and every caller subscribed to
\* the observable receives it.
C1_CoalescedWhileCached ==
    [][/\ \A c \in Callers, r \in Gets :
            (/\ CallerGet(c, r.name, r.key, MaxHandles)
             /\ LiveFor(CacheNamed(r.name), r.key) # <<>>
             /\ InFlight(handles, LiveFor(CacheNamed(r.name), r.key)[1].obs))
            => LET h == LiveFor(CacheNamed(r.name), r.key)[1].obs
               IN  /\ sub'[c] = h
                   /\ handles'[h].calls = 1
                   /\ Len(handles') = Len(handles)
       /\ \A h \in 1..Len(handles) : \A o \in CacheOutcomes(h) :
            Respond(h, o)
            => /\ handles[h].calls = 1
               /\ delivered'.to = Subscribers(h)
               /\ delivered'.err = o.err /\ delivered'.res = o.res
               /\ \A c \in Subscribers(h) : sub'[c] = 0
      ]_vars
\* two callers have received the outcome of one shared call
C1_Witness == delivered.to = Callers /\ delivered.h # 0

\* C2, as stated: a request for a key that has an unexpired entry returns that
\* entry's observable, leaves the entry and its expiry as they are and starts
\* no upstream HTTP call.
C2_HitStartsNoCall ==
    [][\A c \in Callers, r \in Gets :
          (/\ CallerGet(c, r.name, r.key, MaxHandles)
           /\ LiveFor(CacheNamed(r.name), r.key) # <<>>)
          => LET e == LiveFor(CacheNamed(r.name), r.key)[1]
             IN  /\ lastGet'.obs = e.obs
                 /\ \E i \in 1..Len(CacheNamedNext(r.name)) : CacheNamedNext(r.name)[i] = e
                 /\ Len(handles') = Len(handles)
                 /\ \A h \in 1..Len(handles) : handles'[h].calls = handles[h].calls
      ]_vars

\* C3: a search()/getPeakAvailability() call made strictly after the expiry
\* of an entry for its key does not return that entry's observable; it puts a
\* new entry for the key, expiring one TTL from now, at the end of the cache
\* and its subscriber starts a new upstream HTTP call.
C3_NeverServedPastTTL ==
    [][\A c \in Callers, r \in Gets :
          CallerGet(c, r.name, r.key, MaxHandles)
          => \A i \in 1..Len(CacheNamed(r.name)) :
                (/\ CacheNamed(r.name)[i].key = r.key
                 /\ now > CacheNamed(r.name)[i].expiry)
                => LET new == Len(handles) + 1
                       after == CacheNamedNext(r.name)
                   IN  /\ lastGet'.obs # CacheNamed(r.name)[i].obs
                       /\ sub'[c] = new
                       /\ after[Len(after)] =
                            [key |-> r.key, obs |-> new, expiry |-> now + CACHE_TTL_MS]
                       /\ handles'[new].calls = 1
      ]_vars
\* the last call found an entry for its key past its expiry and its new
\* upstream call is in flight
C3_Witness ==
    lastGet.stale /\ ~lastGet.hit /\ lastGet.obs # 0 /\ InFlight(handles, lastGet.obs)

\* C4, as stated: when the upstream outcome of an observable is a failure (a
\* failed envelope or a transport error), no entry for its key is left in its
\* cache.
C4_FailureNotRetained ==
    [][\A h \in 1..Len(handles) : \A o \in CacheOutcomes(h) :
          (Respond(h, o) /\ IsFailure(o))
          => Hits(CacheNamedNext(handles[h].cache), handles[h].key) = <<>>
      ]_vars

\* C5: each cache holds at most CACHE_MAX_ENTRIES entries after every step,
\* and a search() for a key that is not cached, made while the cache holds
\* CACHE_MAX_ENTRIES unexpired entries, removes exactly one of them, one
\* whose expiry is the earliest, and appends the new entry.
C5_Capacity ==
    [][/\ Len(cache') <= CACHE_MAX_ENTRIES
       /\ Len(peakCache') <= CACHE_MAX_ENTRIES
       /\ \A q \in CapInputs :
            LET live == Sweep(cache, now)
            IN  (/\ CallNextPage("c1", q, CapHandles)
                 /\ Len(live) = CACHE_MAX_ENTRIES
                 /\ Hits(live, KeyOf[q]) = <<>>)
                => /\ Len(cache') = CACHE_MAX_ENTRIES
                   /\ cache'[CACHE_MAX_ENTRIES] =
                        [key |-> KeyOf[q], obs |-> Len(handles) + 1,
                         expiry |-> now + CACHE_TTL_MS]
                   /\ \E j \in 1..CACHE_MAX_ENTRIES :
                        /\ \A i \in 1..CACHE_MAX_ENTRIES : live[j].expiry <= live[i].expiry
                        /\ {cache'[i] : i \in 1..(CACHE_MAX_ENTRIES - 1)}
                             = {live[i] : i \in (1..CACHE_MAX_ENTRIES) \ {j}}
      ]_vars
\* the last search() inserted into a full cache whose entries do not all
\* expire together
C5_Witness ==
    /\ lastGet.full /\ ~lastGet.hit /\ lastGet.name = "search"
    /\ Len(cache) = CACHE_MAX_ENTRIES
    /\ cache[1].expiry < cache[CACHE_MAX_ENTRIES - 1].expiry

(***************************************************************************)
(* Properties of the search page                                           *)
(***************************************************************************)
\* C11: the two caches are independent. A search() call or the response of
\* a search request leaves peakCache as it is, a getPeakAvailability() call
\* or the response of a peak request leaves cache as it is, and a call that
\* misses in a cache with fewer than CACHE_MAX_ENTRIES unexpired entries
\* evicts nothing, however many entries the other cache holds.
C11_CachesIndependent ==
    [][/\ \A q \in CapInputs :
            CallFreshPage("c1", q, CapHandles) =>
                /\ peakCache' = peakCache
                /\ (Hits(Sweep(cache, now), KeyOf[q]) = <<>>
                    /\ Len(Sweep(cache, now)) < CACHE_MAX_ENTRIES)
                   => SubSeq(cache', 1, Len(cache') - 1) = Sweep(cache, now)
       /\ \A pn \in IndepPeakInputs :
            CallPeak("c1", pn, CapHandles) =>
                /\ cache' = cache
                /\ (Hits(Sweep(peakCache, now), PeakKeyOf[pn]) = <<>>
                    /\ Len(Sweep(peakCache, now)) < CACHE_MAX_ENTRIES)
                   => SubSeq(peakCache', 1, Len(peakCache') - 1) = Sweep(peakCache, now)
       /\ \A h \in 1..Len(handles) : \A o \in IndepOutcomes(h) :
            Respond(h, o) =>
                /\ handles[h].cache = "search" => peakCache' = peakCache
                /\ handles[h].cache = "peak" => cache' = cache
      ]_vars
\* a getPeakAvailability() miss has added a second peak entry while the
\* search cache is full
C11_Witness ==
    /\ lastGet.name = "peak" /\ ~lastGet.hit
    /\ Len(peakCache) = 2
    /\ Len(cache) = CACHE_MAX_ENTRIES

\* C12: when the result of the request issued last arrives as a success,
\* whether from the HTTP call or replayed from the cache, it is published:
\* loading is cleared, items and total are those of the result and the error
\* message is cleared.
C12_SuccessTransition ==
    [][/\ \A h \in 1..Len(handles) : \A o \in OrchOutcomes(h) :
            (Respond(h, o) /\ h \in inner /\ ~IsFailure(o)) =>
                /\ pub'.h = h
                /\ pub'.res = o.res
       /\ (pub'.h # 0 /\ ~pub'.res[1].isFailed) =>
            /\ loading' = FALSE
            /\ errorMessage' = null
            /\ items' = pub'.res[1].data[1].items
            /\ total' = pub'.res[1].data[1].total
      ]_vars
\* a success has been published
C12_Witness ==
    /\ pub.h # 0 /\ ~pub.res[1].isFailed
    /\ total = 45 /\ items = <<pub.h>> /\ ~loading /\ errorMessage = null

\* C13: onSearch with a valid form sets loading at once, in the step that
\* starts the debounce window and issues nothing; onSort and onPageChange
\* leave loading as it is.
C13_SearchLoadsAtOnce ==
    [][/\ (onSearch /\ ~invalid(form)) =>
            /\ loading'
            /\ issuedQ' = <<>>
            /\ alive => debouncing' /\ deadline' = now + _debounce
       /\ \A f \in SortFields : onSort(f) => loading' = loading
       /\ \A p \in PageInputs : onPageChange(p) => loading' = loading
      ]_vars
\* loading is shown while the first request has yet to be issued
C13_Witness == loading /\ debouncing /\ latest = 0 /\ burst >= 1 /\ now < deadline

C7_FailureKeepsPrior ==
    [][\A h \in 1..Len(handles) : \A o \in OrchOutcomes(h) :
        (Respond(h, o) /\ h \in inner /\ IsFailure(o)) =>
            /\ loading' = FALSE
            /\ errorMessage' # null
            /\ items' = items
            /\ total' = total]_vars

SearchAnswered == call.op = "search" /\ reply.status = 200
TheRequest == RequestOf(call.request[1])
TheResult == reply.data[1]
\* the positions of the records that pass the three Where(...) predicates
Passing(request) ==
    {k \in 1..Len(records) :
        /\ CriteriaMatch(records[k], request)
        /\ BranchMatch(records[k], request)
        /\ AvailableMatch(records[k], request)}

ProductAtLeast(pg, size, n) ==
    n = 0 \/ (pg > 0 /\ size >= (n + pg - 1) \div pg)
Min(a, b) == IF a <= b THEN a ELSE b
\* elements [pg * size, pg * size + size) of a sequence
Slice(query, pg, size) ==
    IF ProductAtLeast(pg, size, Len(query)) THEN <<>>
    ELSE SubSeq(query, pg * size + 1, Min(pg * size + size, Len(query)))
\* a search request with page >= 0 and size > 0 was handled
PagedSearch ==
    /\ call.op = "search"
    /\ ~call.request[1].fail
    /\ call.request[1].page >= 0
    /\ call.request[1].size > 0

\* C15: for page >= 0 and size > 0 the returned items are elements
\* [page*size, page*size+size) of the filtered and sorted sequence, their
\* number is min(size, max(0, total - page*size)), and another page of the same
\* search shares no item with this one.
C15_PageIsSlice ==
    PagedSearch =>
        LET query == Sorted(records, TheRequest)
            pg == TheRequest.Page
            size == TheRequest.Size
        IN  /\ reply.status = 200
            /\ TheResult.Items = Slice(query, pg, size)
            /\ Len(TheResult.Items) =
                  IF ProductAtLeast(pg, size, Len(query)) THEN 0
                  ELSE Min(size, Len(query) - pg * size)
            /\ \A other \in ServerPages \ {pg} :
                  other >= 0 =>
                    LET there == SearchInventoryAsync(records,
                                     [TheRequest EXCEPT !.Page = other]).Items
                    IN  \A a \in 1..Len(TheResult.Items), b \in 1..Len(there) :
                            TheResult.Items[a] # there[b]

\* C16: a page index and page size with page >= 0, size > 0 and
\* page*size >= total (as mathematical integers) give status 200, an empty
\* page and the total of the matching records.
C16_OutOfRangeEmpty ==
    (PagedSearch /\ ProductAtLeast(TheRequest.Page, TheRequest.Size,
                                   Cardinality(Passing(TheRequest)))) =>
        /\ reply.status = 200
        /\ TheResult.Items = <<>>
        /\ TheResult.Total = Cardinality(Passing(TheRequest))

\* the branch codes a branches string names: its non-empty pieces between
\* commas, trimmed, compared without regard to case
NamedBranches(branches) ==
    LET parts == Split(branches, ",")
    IN  {toUpperCase(trim(parts[k])) : k \in 1..Len(parts)} \ {<<>>}
\* the field that `by` selects
SelectedField(i, by) ==
    IF by = Description THEN i.Description
    ELSE IF by = SupplierSKU THEN i.SupplierSku
    ELSE i.PartNumber
\* the conjunction of the three filter predicates as the contract states them
Satisfies(i, request) ==
    /\ \/ trim(request.Criteria) = <<>>
       \/ Contains(toUpperCase(SelectedField(i, trim(request.By))),
                   toUpperCase(trim(request.Criteria)))
    /\ \/ NamedBranches(request.Branches) = {}
       \/ toUpperCase(i.Branch) \in NamedBranches(request.Branches)
    /\ request.OnlyAvailable => i.AvailableQty > 0

\* C17: a record is counted and returned iff it satisfies the criteria
\* predicate and the branch predicate and the availability predicate, where a
\* branches string that names no code stands for all branches.
C17_FilterConjunction ==
    SearchAnswered =>
        /\ TheResult.Total =
              Cardinality({k \in 1..Len(records) : Satisfies(records[k], TheRequest)})
        /\ Filtered(records, TheRequest) =
              SelectSeq(records, LAMBDA i : Satisfies(i, TheRequest))

\* the position of record x in a sequence of pairwise different records
Pos(s, x) == CHOOSE k \in 1..Len(s) : s[k] = x
\* two records have equal sort keys
SameKey(x, y, sortField) ==
    /\ ~KeyLess(keySelector(sortField, x), keySelector(sortField, y))
    /\ ~KeyLess(keySelector(sortField, y), keySelector(sortField, x))
TheSortField == sortFieldOf(TheRequest.Sort)
TheSortDescending == sortDirOf(TheRequest.Sort) = desc

\* C18: in the sorted sequence of a search, ascending or descending, records
\* with equal sort keys keep the relative order they have in the record set,
\* and sorting the sorted sequence again by the same key and direction leaves
\* it as it is.
C18_StableIdempotent ==
    SearchAnswered =>
        LET out == Sorted(records, TheRequest)
        IN  /\ \A a \in 1..Len(out), b \in 1..Len(out) :
                  (a < b /\ SameKey(out[a], out[b], TheSortField)) =>
                      Pos(records, out[a]) < Pos(records, out[b])
            /\ OrderBy(out, TheSortField, TheSortDescending) = out
\* a descending search that moved records and returned two with the same key
C18_Witness ==
    /\ SearchAnswered
    /\ TheSortDescending
    /\ Sorted(records, TheRequest) # Filtered(records, TheRequest)
    /\ \E a \in 1..Len(TheResult.Items), b \in 1..Len(TheResult.Items) :
          a < b /\ SameKey(TheResult.Items[a], TheResult.Items[b], TheSortField)

leadtimedays == <<"l", "e", "a", "d", "t", "i", "m", "e", "d", "a", "y", "s">>
lastpurchasedate ==
    <<"l", "a", "s", "t", "p", "u", "r", "c", "h", "a", "s", "e", "d", "a", "t", "e">>

PeakAnswered == call.op = "peak" /\ reply.status = 200
RECURSIVE SumSeq(_)
SumSeq(s) == IF s = <<>> THEN 0 ELSE Head(s) + SumSeq(Tail(s))
\* the records whose part number is the requested one
Matched(partNumber) ==
    SelectSeq(records,
              LAMBDA i : toUpperCase(trim(i.PartNumber)) = toUpperCase(trim(partNumber)))

\* C20: the totalAvailable of a peak availability result is the sum of the qty
\* of its branches, which is the sum of the available quantity of the matched
\* records, and no two entries of the breakdown have the same branch code up to
\* letter case.
C20_PeakTotal ==
    PeakAnswered =>
        LET res == reply.data[1]
            qtys == [k \in 1..Len(res.Branches) |-> res.Branches[k].Qty]
        IN  /\ res.TotalAvailable = SumSeq(qtys)
            /\ res.TotalAvailable = SumSeq(QtyOf(Matched(call.partNumber[1])))
            /\ \A a \in 1..Len(res.Branches), b \in 1..Len(res.Branches) :
                  a # b => toUpperCase(res.Branches[a].Branch)
                               # toUpperCase(res.Branches[b].Branch)
\* a breakdown of two branches, one of them summed over records that spell
\* the branch code in different letter case
C20_Witness ==
    /\ PeakAnswered
    /\ Len(reply.data[1].Branches) >= 2
    /\ \E a \in 1..Len(records), b \in 1..Len(records) :
          LET m == Matched(call.partNumber[1])
          IN  /\ \E k \in 1..Len(m) : m[k] = records[a]
              /\ \E k \in 1..Len(m) : m[k] = records[b]
              /\ records[a].Branch # records[b].Branch
              /\ toUpperCase(records[a].Branch) = toUpperCase(records[b].Branch)

\* C21: the breakdown of a peak availability result is in descending order of
\* summed quantity, and of two branches with the same summed quantity the one
\* with the smaller branch code comes first.
C21_PeakOrderWithTieBreak ==
    PeakAnswered =>
        LET bs == reply.data[1].Branches
        IN  \A a \in 1..Len(bs), b \in 1..Len(bs) :
                a < b =>
                    \/ bs[a].Qty > bs[b].Qty
                    \/ bs[a].Qty = bs[b].Qty /\ StrLess(bs[a].Branch, bs[b].Branch)

\* the part number of the peak availability request in hand
ThePartNumber == call.partNumber[1]

\* C22: a peak availability lookup throws the invalid-argument error exactly
\* when the part number is blank; for a non-blank part number that matches no
\* record it returns total 0, no branches and the part number trimmed, and
\* the request is answered as a success.
C22_NotFoundIsNotAnError ==
    call.op = "peak" =>
        LET r == GetPeakAvailabilityAsync(records, ThePartNumber)
            blank == \A k \in 1..Len(ThePartNumber) : ThePartNumber[k] = " "
        IN  /\ (r.threw # <<>> /\ r.threw[1].kind = "ArgumentException") <=> blank
            /\ (~blank /\ Matched(ThePartNumber) = <<>>) =>
                  /\ r = Returned([PartNumber |-> trim(ThePartNumber),
                                   TotalAvailable |-> 0, Branches |-> <<>>])
                  /\ reply.status = 200
                  /\ ~reply.isFailed
                  /\ reply.data = r.value
\* a part number with blanks around it that no stored record has
C22_Witness ==
    /\ PeakAnswered
    /\ records # <<>>
    /\ Matched(ThePartNumber) = <<>>
    /\ trim(ThePartNumber) # ThePartNumber
    /\ reply.data[1].PartNumber = trim(ThePartNumber)
    /\ reply.data[1].TotalAvailable = 0

\* C23: the records that contribute to a peak availability result are those
\* whose part number, trimmed and upper-cased, equals the requested one
\* trimmed and upper-cased: the breakdown has the branches of these records
\* and sums their quantities and no others, and the part number returned is the
\* stored one of the first of them.
C23_ExactMatch ==
    PeakAnswered =>
        LET res == reply.data[1]
            m == Matched(ThePartNumber)
        IN  /\ {res.Branches[k].Branch : k \in 1..Len(res.Branches)}
                  = {toUpperCase(m[k].Branch) : k \in 1..Len(m)}
            /\ \A k \in 1..Len(res.Branches) :
                  res.Branches[k].Qty =
                      SumSeq(QtyOf(SelectSeq(m,
                          LAMBDA i : toUpperCase(i.Branch) = res.Branches[k].Branch)))
            /\ m # <<>> => res.PartNumber = m[1].PartNumber
            /\ m = <<>> => res.PartNumber = trim(ThePartNumber)
\* a request spelled differently from the stored part number it matches, with
\* a record in the store whose part number only contains the requested one
C23_Witness ==
    /\ PeakAnswered
    /\ Matched(ThePartNumber) # <<>>
    /\ reply.data[1].PartNumber # ThePartNumber
    /\ \E k \in 1..Len(records) :
          /\ Contains(toUpperCase(records[k].PartNumber), toUpperCase(trim(ThePartNumber)))
          /\ toUpperCase(trim(records[k].PartNumber)) # toUpperCase(trim(ThePartNumber))

\* C24: a search with a negative page index returns the items of the same
\* search with page 0, and a search with a non-positive page size returns the
\* items of the same search with size 20.
C24_Clamping ==
    SearchAnswered =>
        /\ TheRequest.Page < 0 =>
              TheResult.Items =
                  SearchInventoryAsync(records, [TheRequest EXCEPT !.Page = 0]).Items
        /\ TheRequest.Size <= 0 =>
              TheResult.Items =
                  SearchInventoryAsync(records, [TheRequest EXCEPT !.Size = 20]).Items
        /\ (TheRequest.Page < 0 /\ TheRequest.Size <= 0) =>
              TheResult.Items = Slice(Sorted(records, TheRequest), 0, 20)
\* a search with a negative page and a negative size that returned more
\* than two items
C24_Witness ==
    /\ SearchAnswered
    /\ TheRequest.Page < 0
    /\ TheRequest.Size < 0
    /\ Len(TheResult.Items) > 2

\* an answer that is a failure envelope with a message and no data
FailureEnvelope == reply.isFailed /\ reply.data = <<>> /\ reply.message # ""

\* C25: a peak availability request with a blank part number is answered 400
\* with a failure envelope without the service being invoked; an exception
\* thrown by the service is answered 500 with a failure envelope and a
\* non-empty message; an answer 200 carries data and isFailed = false.
C25_BoundaryStatuses ==
    /\ call.op = "peak" =>
          LET r == GetPeakAvailabilityAsync(records, ThePartNumber)
          IN  IF IsNullOrWhiteSpace(ThePartNumber)
              THEN reply.status = 400 /\ FailureEnvelope /\ ~reply.invoked
              ELSE /\ reply.invoked
                   /\ r.threw # <<>> => reply.status = 500 /\ FailureEnvelope
                   /\ r.threw = <<>> => reply.status = 200 /\ reply.data = r.value
    /\ reply.status = 500 => FailureEnvelope /\ reply.invoked
    /\ reply.status = 200 =>
          ~reply.isFailed /\ reply.data # <<>> /\ reply.message = ""
    /\ call # NoCall => reply.status \in {200, 400, 500}
\* a peak availability request during which the service threw
C25_Witness ==
    /\ call.op = "peak"
    /\ ~IsNullOrWhiteSpace(ThePartNumber)
    /\ GetPeakAvailabilityAsync(records, ThePartNumber).threw # <<>>
    /\ reply.status = 500

\* the request issued last is outstanding: switchMap is subscribed to it and
\* its HTTP call has produced no outcome
Executing == latest \in inner /\ InFlight(handles, latest)

\* C27: loading is true in every state in which the request issued last is
\* outstanding, also when it replaced a request that was still in flight.
C27_LoadingWhileExecuting == Executing => loading

\* C28: when the request in hand ends in failure, by a failure envelope or by
\* a rejected transport call, an error message is published, loading is
\* cleared and the pipeline stays subscribed; and every search, sort or page
\* trigger starts a debounce window, so that a later request is issued.
C28_SurvivesFailure ==
    [][/\ \A h \in 1..Len(handles) : \A o \in OrchOutcomes(h) :
            (Respond(h, o) /\ h \in inner /\ IsFailure(o)) =>
                errorMessage' # null /\ ~loading' /\ alive'
       /\ ((onSearch /\ ~invalid(form))
            \/ (\E f \in SortFields : onSort(f))
            \/ (\E p \in PageInputs : onPageChange(p))) => debouncing']_vars

\* a search at the default page size that every stored record matches
MatchesAllAtDefaultSize ==
    /\ SearchAnswered
    /\ TheResult.Total = Len(records)
    /\ (TheRequest.Size <= 0 \/ TheRequest.Size = DefaultSize)

\* C29: a search at the default page size that matches every seeded record
\* has at least 4 non-empty pages: its total exceeds 3 pages of 20, and its
\* page 3 has items.
C29_FourPagesAtDefaultSize ==
    MatchesAllAtDefaultSize =>
        /\ TheResult.Total > 3 * DefaultSize
        /\ TheRequest.Page = 3 => TheResult.Items # <<>>

\* C30: once loading is true it becomes false again, when the user stops
\* acting, time passes and every call in flight produces its outcome.
C30_LoadingClears == loading ~> ~loading

\* C31: a failed response removes only the cache entry created for its own
\* request: every entry of another observable, a newer entry for the same
\* key included, is still in the cache after the response has arrived.
C31_FailureRemovesOwnEntryOnly ==
    [][\A h \in 1..Len(handles) : \A o \in CacheOutcomes(h) :
          (Respond(h, o) /\ ~o.err /\ o.res[1].isFailed)
          => LET before == CacheNamed(handles[h].cache)
                 after == CacheNamedNext(handles[h].cache)
             IN  \A i \in 1..Len(before) :
                    before[i].obs # h
                    => \E j \in 1..Len(after) : after[j] = before[i]
      ]_vars

\* C32: after any sequence of header clicks, page navigations and explicit
\* searches the table's pageIndex equals the page the orchestrator builds
\* its next query with (currentPage and the value of page$).
C32_TableAgreesWithPage == pageIndex = currentPage /\ currentPage = page

====
